---- MODULE Spec2Model ----
(***************************************************************************)
(* Model of src/src/main.rs: the CMake bootstrapper.  main() calls run();  *)
(* run() parses the arguments, runs environment_check() over the tool      *)
(* registry TOOL_URLS (probe, prompt, download, clean, extract, rename,    *)
(* PATH update) and then spawns cmake configure, cmake build and the built *)
(* executable.                                                             *)
(*                                                                         *)
(* Text is modelled as a sequence of tokens: the separators "/", ".", ":", *)
(* "?", "#", the white-space characters, and the maximal chunks between    *)
(* them.  The build directory alone is a real string, built with \o as     *)
(* format! builds it.                                                      *)
(***************************************************************************)
EXTENDS Naturals, Sequences, FiniteSets, TLC

(***************************************************************************)
(* Bounds of the model.                                                    *)
(***************************************************************************)
\* how many entries the PATH inherited from the parent process may hold
MaxInitPath == 1
\* how many tools of the registry, from its first, an earlier run may have left
\* an archive or directories of
MaxToolsBefore == 1

(***************************************************************************)
(* Constants of the program (main.rs 17-21).                               *)
(***************************************************************************)
DOWNLOAD_DIR == <<"downloads">>
TOOLS_DIR == <<"tools">>
CMAKE_DIR == <<"cmake">>
MINGW_X86_64_DIR == <<"mingw64">>
MINGW_I686_DIR == <<"mingw32">>

\* the generic name download() falls back to (main.rs 214)
FallbackName == <<"downloaded_file", ".", "bin">>

\* No value (Option::None); a name is never this token sequence.
None == <<"<none>">>

(***************************************************************************)
(* The registry: a BTreeMap, iterated in the order of its keys             *)
(* ("cmake" < "i686-w64-mingw32-gcc" < "x86_64-w64-mingw32-gcc").          *)
(***************************************************************************)
GithubPrefix == <<"https", ":", "/", "/", "github", ".", "com", "/">>

CMakeUrl ==
    GithubPrefix \o <<"Kitware", "/", "CMake", "/", "releases", "/", "download", "/",
                      "v3", ".", "31", ".", "6", "/",
                      "cmake-3", ".", "31", ".", "6-windows-x86_64", ".", "zip">>

MingwI686Url ==
    GithubPrefix \o <<"niXman", "/", "mingw-builds-binaries", "/", "releases", "/",
                      "download", "/", "14", ".", "2", ".", "0-rt_v12-rev1", "/",
                      "i686-14", ".", "2", ".", "0-release-posix-dwarf-ucrt-rt_v12-rev1",
                      ".", "7z">>

MingwX8664Url ==
    GithubPrefix \o <<"niXman", "/", "mingw-builds-binaries", "/", "releases", "/",
                      "download", "/", "14", ".", "2", ".", "0-rt_v12-rev1", "/",
                      "x86_64-14", ".", "2", ".", "0-release-posix-seh-ucrt-rt_v12-rev1",
                      ".", "7z">>

TOOL_URLS ==
    << [tool_name |-> "cmake", url |-> CMakeUrl, target_dir |-> CMAKE_DIR],
       [tool_name |-> "i686-w64-mingw32-gcc", url |-> MingwI686Url,
        target_dir |-> MINGW_I686_DIR],
       [tool_name |-> "x86_64-w64-mingw32-gcc", url |-> MingwX8664Url,
        target_dir |-> MINGW_X86_64_DIR] >>

(***************************************************************************)
(* Helpers on token sequences.                                             *)
(***************************************************************************)
\* the positions of s that hold token t
Positions(s, t) == {k \in 1..Len(s) : s[k] = t}

Max(S) == CHOOSE x \in S : \A y \in S : y <= x

Min(S) == CHOOSE x \in S : \A y \in S : x <= y

\* s cut at every token t: the pieces, in order (at least one, possibly empty)
RECURSIVE Split(_, _)
Split(s, t) ==
    IF Positions(s, t) = {}
    THEN <<s>>
    ELSE LET k == Min(Positions(s, t))
         IN  <<SubSeq(s, 1, k - 1)>> \o Split(SubSeq(s, k + 1, Len(s)), t)

\* the pieces joined again with token t between them
RECURSIVE Join(_, _)
Join(parts, t) ==
    IF parts = <<>> THEN <<>>
    ELSE IF Len(parts) = 1 THEN parts[1]
    ELSE parts[1] \o <<t>> \o Join(Tail(parts), t)

(***************************************************************************)
(* Url::parse and Url::path_segments of the url crate, as far as the       *)
(* program uses them: a URL needs a scheme; "scheme://host/path" has path  *)
(* segments (an empty path is "/"), "scheme:rest" (cannot be a base) has   *)
(* none; the query and the fragment are not part of the path; "." and ".." *)
(* segments are resolved while parsing.                                    *)
(***************************************************************************)
\* the end of the path: before the first "?" or "#"
PathEnd(s) ==
    LET stops == Positions(s, "?") \cup Positions(s, "#")
    IN  IF stops = {} THEN Len(s) ELSE Min(stops) - 1

\* "." and ".." segments resolved; a final "." or ".." leaves an empty last segment
RECURSIVE RemoveDotSegments(_, _)
RemoveDotSegments(segs, acc) ==
    IF segs = <<>> THEN acc
    ELSE LET s == Head(segs)
             last == Len(segs) = 1
         IN  IF s = <<".">>
             THEN RemoveDotSegments(Tail(segs), IF last THEN Append(acc, <<>>) ELSE acc)
             ELSE IF s = <<".", ".">>
             THEN LET popped == IF acc = <<>> THEN acc ELSE SubSeq(acc, 1, Len(acc) - 1)
                  IN  RemoveDotSegments(Tail(segs),
                                        IF last THEN Append(popped, <<>>) ELSE popped)
             ELSE RemoveDotSegments(Tail(segs), Append(acc, s))

\* [ok |-> parsed, segments |-> the path segments, or None for a URL without them]
UrlParse(url) ==
    IF Len(url) < 2 \/ url[2] # ":" \/ url[1] \in {"/", ".", ":", "?", "#"}
    THEN [ok |-> FALSE, has_segments |-> FALSE, segments |-> <<>>]
    ELSE IF Len(url) >= 4 /\ url[3] = "/" /\ url[4] = "/"
    THEN LET rest == SubSeq(url, 5, PathEnd(url))
             slashes == Positions(rest, "/")
             host == IF slashes = {} THEN rest ELSE SubSeq(rest, 1, Min(slashes) - 1)
             path == IF slashes = {} THEN <<>>
                     ELSE SubSeq(rest, Min(slashes) + 1, Len(rest))
         IN  IF host = <<>>
             THEN [ok |-> FALSE, has_segments |-> FALSE, segments |-> <<>>]
             ELSE [ok |-> TRUE, has_segments |-> TRUE,
                   segments |-> RemoveDotSegments(Split(path, "/"), <<>>)]
    ELSE [ok |-> TRUE, has_segments |-> FALSE, segments |-> <<>>]

\* Url::parse(url).ok().and_then(|u| u.path_segments().and_then(|s| s.last()))
LastSegment(url) ==
    LET u == UrlParse(url)
    IN  IF u.ok /\ u.has_segments /\ u.segments # <<>>
        THEN u.segments[Len(u.segments)]
        ELSE None

\* get_url_filename without its filter: an empty last segment is a name
get_url_filename_unfiltered(url) == LastSegment(url)

\* get_url_filename: the last path segment, None when there is none or it is empty
get_url_filename(url) ==
    LET s == LastSegment(url)
    IN  IF s = None \/ s = <<>> THEN None ELSE s

\* the name download() gives the file: the override, else the last path
\* segment; an empty name is dropped; else the fallback
DownloadFileName(url, filename) ==
    LET picked == IF filename # None THEN filename ELSE LastSegment(url)
    IN  IF picked = None \/ picked = <<>> THEN FallbackName ELSE picked

(***************************************************************************)
(* Path::extension and str::strip_suffix on a file name.                   *)
(***************************************************************************)
\* the part after the last ".", None without a "." or when the only "." leads
Extension(file_name) ==
    LET dots == Positions(file_name, ".")
    IN  IF dots = {} \/ Max(dots) = 1 \/ file_name = <<".", ".">> THEN None
        ELSE SubSeq(file_name, Max(dots) + 1, Len(file_name))

\* file_name.strip_suffix(".zip").unwrap_or(&file_name)
StripZip(file_name) ==
    LET n == Len(file_name)
    IN  IF n >= 2 /\ file_name[n - 1] = "." /\ file_name[n] = "zip"
        THEN SubSeq(file_name, 1, n - 2)
        ELSE file_name

(***************************************************************************)
(* The file system under tools/: a function from the name of a directory   *)
(* to what it holds, a subset of                                           *)
(*   "old": a file that was there before the run,                          *)
(*   "new": the files the archive extracted in this run holds,             *)
(*   "bin": the bin subdirectory.                                          *)
(***************************************************************************)
\* fs::remove_dir_all
RemoveDir(fs, d) == [x \in DOMAIN fs \ {d} |-> fs[x]]

\* the extractors write into d: the directory is created when missing, the files
\* it already holds stay
WriteDir(fs, d, content) ==
    [x \in DOMAIN fs \cup {d} |->
        IF x = d THEN (IF d \in DOMAIN fs THEN fs[d] ELSE {}) \cup content ELSE fs[x]]

\* fs::rename of a directory onto a free name
MoveDir(fs, s, t) ==
    [x \in (DOMAIN fs \ {s}) \cup {t} |-> IF x = t THEN fs[s] ELSE fs[x]]

\* unzip and un7z: every entry of the archive is written under tools/
Extracted(fs, archive) ==
    WriteDir(fs, archive.top, {"new"} \cup (IF archive.has_bin THEN {"bin"} ELSE {}))

\* the file name without its extension
ArchiveStem(file_name) ==
    IF Extension(file_name) = None THEN file_name
    ELSE SubSeq(file_name, 1, Len(file_name) - Len(Extension(file_name)) - 1)

\* what an archive may hold: its top-level directory is named after the archive
\* or after the install directory, with or without a bin directory in it
Archives(file_name, target_dir) ==
    [top : {ArchiveStem(file_name), target_dir}, has_bin : BOOLEAN]

(***************************************************************************)
(* rename_dir: fs::rename, and on AlreadyExists the target is removed and  *)
(* the rename done again.  kind is the error fs::rename gives for a target *)
(* that exists (it depends on the platform).                               *)
(***************************************************************************)
rename_dir(fs, source, target, kind) ==
    IF source \notin DOMAIN fs THEN [ok |-> FALSE, fs |-> fs]
    ELSE IF source = target THEN [ok |-> TRUE, fs |-> fs]
    ELSE IF target \notin DOMAIN fs THEN [ok |-> TRUE, fs |-> MoveDir(fs, source, target)]
    ELSE IF kind = "AlreadyExists"
    THEN [ok |-> TRUE, fs |-> MoveDir(RemoveDir(fs, target), source, target)]
    ELSE [ok |-> FALSE, fs |-> fs]

(***************************************************************************)
(* PATH: env::split_paths and env::join_paths in their Unix form (the      *)
(* separator is ":"; join_paths refuses an entry that holds it).           *)
(***************************************************************************)
PathSep == ":"

split_paths(value) == Split(value, PathSep)

join_paths(paths) ==
    IF \E k \in 1..Len(paths) : Positions(paths[k], PathSep) # {}
    THEN [ok |-> FALSE, value |-> <<>>]
    ELSE [ok |-> TRUE, value |-> Join(paths, PathSep)]

\* Path::join of an absolute base and a relative path
PathJoin(base, rel) ==
    IF base # <<>> /\ base[Len(base)] = "/" THEN base \o rel ELSE base \o <<"/">> \o rel

\* env::current_dir()?.join(output_dir.join("bin"))
BinPath(dir, target_dir) ==
    PathJoin(dir, TOOLS_DIR \o <<"/">> \o target_dir \o <<"/", "bin">>)

\* paths.contains(&bin_path)
Contains(paths, p) == \E k \in 1..Len(paths) : paths[k] = p

\* push instead of insert(0, ..): the directory goes behind the others
InsertLast(paths, p) == Append(paths, p)

\* paths.insert(0, bin_path.clone())
Insert0(paths, p) == <<p>> \o paths

\* add_tool_to_path: [status, path], the status "ok", "err" or "panic"
add_tool_to_path(path, bin_path, exists) ==
    IF ~exists THEN [status |-> "err", path |-> path]
    ELSE IF ~path.set THEN [status |-> "panic", path |-> path]
    ELSE LET paths == split_paths(path.value)
         IN  IF Contains(paths, bin_path) THEN [status |-> "ok", path |-> path]
             ELSE LET new_path == join_paths(Insert0(paths, bin_path))
                  IN  IF new_path.ok
                      THEN [status |-> "ok",
                            path |-> [set |-> TRUE, value |-> new_path.value]]
                      ELSE [status |-> "err", path |-> path]

(***************************************************************************)
(* The answer to the prompt: a line of standard input, and str::trim.      *)
(***************************************************************************)
WhiteSpace == {" ", "\t", "\r", "\n"}

RECURSIVE TrimStart(_)
TrimStart(s) ==
    IF s # <<>> /\ Head(s) \in WhiteSpace THEN TrimStart(Tail(s)) ELSE s

RECURSIVE TrimEnd(_)
TrimEnd(s) ==
    IF s # <<>> /\ s[Len(s)] \in WhiteSpace THEN TrimEnd(SubSeq(s, 1, Len(s) - 1)) ELSE s

Trim(s) == TrimEnd(TrimStart(s))

\* choice == "n"
Declines(choice) == choice = <<"n">>

\* the lines the user may give: y, n, n with white space around it, an empty
\* line, and the end of the input
Answers == { <<"y", "\n">>, <<"n", "\n">>, <<" ", "n", "\r", "\n">>, <<"\n">>, <<>> }

(***************************************************************************)
(* run(): the build directory, the compilers of an architecture, and the   *)
(* command lines.                                                          *)
(***************************************************************************)
\* format!("build/{}-{}", build_type, arch)
BuildDir(build_type, arch) == "build/" \o build_type \o "-" \o arch

\* match arch.as_str(): (flags, c_compiler, cxx_compiler)
Toolchain(arch) ==
    IF arch = "x64"
    THEN <<"-m64", "x86_64-w64-mingw32-gcc.exe", "x86_64-w64-mingw32-g++.exe">>
    ELSE IF arch = "x86"
    THEN <<"-m32", "i686-w64-mingw32-gcc.exe", "i686-w64-mingw32-g++.exe">>
    ELSE <<"", "", "">>

ConfigCommand(dir, build_type, arch) ==
    LET t == Toolchain(arch)
    IN  << "-B", dir, "-S", ".", "-G", "MinGW Makefiles",
           "-DCMAKE_EXPORT_COMPILE_COMMANDS=ON",
           "-DCMAKE_BUILD_TYPE=" \o build_type,
           "-DCMAKE_C_FLAGS=" \o t[1],
           "-DCMAKE_CXX_FLAGS=" \o t[1],
           "-DEXECUTABLE_OUTPUT_PATH=bin",
           "-DLIBRARY_OUTPUT_PATH=bin",
           "-DCMAKE_C_COMPILER=" \o t[2],
           "-DCMAKE_CXX_COMPILER=" \o t[3] >>

BuildCommand(dir) == <<"--build", dir>>

\* CURRENT_DIR_NAME: the last component of the current directory, "root" for /
CurrentDirName(dir) ==
    LET slashes == Positions(dir, "/")
        name == IF slashes = {} THEN dir ELSE SubSeq(dir, Max(slashes) + 1, Len(dir))
    IN  IF name = <<>> THEN <<"root">> ELSE name

\* format!("{}/bin/{}", build_dir, program_name)
ExePath(dir, program_name) == <<dir, "/", "bin", "/">> \o program_name

\* run_command: what the spawn gave ("ok": exit code 0, "nonzero", "notfound")
\* becomes Ok or Err
run_command(outcome) == IF outcome = "ok" THEN "Ok" ELSE "Err"

SpawnOutcomes == {"ok", "nonzero", "notfound"}

(***************************************************************************)
(* The state.                                                              *)
(***************************************************************************)
VARIABLES
    registry,    \* TOOL_URLS, in the order of iteration
    cwd,         \* the current directory of the process
    pc,          \* where the process is
    i,           \* environment_check: the index of the tool of this iteration
    choice,      \* environment_check: the trimmed answer (None: not asked)
    file_name,   \* environment_check: the archive name (None: not computed)
    downloads,   \* the names of the files under downloads/
    tools,       \* the directories under tools/ and what they hold
    PATH,        \* the PATH of the process: [set, value]
    path0,       \* the entries of PATH when the process started
    did,         \* the calls made so far: <<call, tool name>>
    arch,        \* run(): args.architecture ("": not read yet)
    build_type,  \* run(): args.build_type ("": not read yet)
    build_dir,   \* run(): the build directory ("": not computed)
    spawned,     \* run(): the commands run_command spawned, with what they gave
    error,       \* why run() returned Err ("": it did not)
    exit_code    \* the exit status of the process: <<n>>, <<>> while it runs

vars == <<registry, cwd, pc, i, choice, file_name, downloads, tools, PATH, path0,
          did, arch, build_type, build_dir, spawned, error, exit_code>>

\* the tool of this iteration
Tool == registry[i]

output_dir == Tool.target_dir

Done(call) == did \cup {<<call, Tool.tool_name>>}

\* the values of --architecture and --build-type: any string is accepted
Architectures == {"x64", "x86", "x64-x86"}

BuildTypes == {"Debug", "Debug-x64"}

CurrentDirs == { <<"/", "w">>, <<"/", "a", ":", "b">> }

locals == <<choice, file_name>>

env == <<registry, cwd, path0>>

runvars == <<arch, build_type, build_dir, spawned>>

(***************************************************************************)
(* How an iteration of environment_check ends.                             *)
(***************************************************************************)
\* continue, or the end of the loop body: the next tool, or back in run()
NextTool ==
    /\ choice' = None
    /\ file_name' = None
    /\ IF i < Len(registry)
       THEN i' = i + 1 /\ pc' = "probe"
       ELSE i' = i /\ pc' = "configure"
    /\ UNCHANGED <<error, exit_code>>

\* environment_check returns Err(e): run() returns it and main() exits with 1
Fail(e) ==
    /\ pc' = "exited"
    /\ error' = e
    /\ exit_code' = <<1>>
    /\ UNCHANGED <<i, choice, file_name>>

\* expect() or unwrap() panics: the process ends with 101
Panic(e) ==
    /\ pc' = "exited"
    /\ error' = e
    /\ exit_code' = <<101>>
    /\ UNCHANGED <<i, choice, file_name>>

(***************************************************************************)
(* environment_check, one action per call to the outside.                  *)
(***************************************************************************)
\* the probe with its test negated: a tool that answers is taken for missing
is_tool_available_negated(launched, status) == ~(launched /\ status = 0)

\* is_tool_available: output().map(|o| o.status.success()).unwrap_or(false)
is_tool_available(launched, status) == launched /\ status = 0

\* the probe `tool --version`: it launches or not, and exits with 0 or not; did
\* records what the probe gave, the branch is is_tool_available's
Probe ==
    /\ pc = "probe"
    /\ \E launched \in BOOLEAN, status \in {0, 1} :
         /\ did' = IF launched /\ status = 0 THEN Done("probe_ok")
                   ELSE Done("probe_failed")
         /\ IF is_tool_available(launched, status)
            THEN NextTool
            ELSE /\ pc' = "prompt"
                 /\ UNCHANGED <<i, choice, file_name, error, exit_code>>
    /\ UNCHANGED <<env, downloads, tools, PATH, runvars>>

\* the prompt and read_line; "n" continues with the next tool
Prompt ==
    /\ pc = "prompt"
    /\ \/ \E line \in Answers :
            /\ did' = IF Declines(Trim(line))
                      THEN did \cup {<<"prompt", Tool.tool_name>>,
                                     <<"declined", Tool.tool_name>>}
                      ELSE Done("prompt")
            /\ IF Declines(Trim(line))
               THEN NextTool
               ELSE /\ choice' = Trim(line)
                    /\ pc' = "fetch"
                    /\ UNCHANGED <<i, file_name, error, exit_code>>
       \/ /\ did' = Done("prompt")
          /\ Panic("read_line failed")
    /\ UNCHANGED <<env, downloads, tools, PATH, runvars>>

\* get_url_filename, and download(url, None) unless the archive is there
Fetch ==
    /\ pc = "fetch"
    /\ LET name == get_url_filename(Tool.url)
           saved == DownloadFileName(Tool.url, None)
       IN  IF name = None
           THEN /\ Fail("cannot parse the file name of the URL")
                /\ UNCHANGED <<did, downloads>>
           ELSE IF name \in downloads
           THEN /\ file_name' = name
                /\ pc' = "clean"
                /\ UNCHANGED <<did, downloads, i, choice, error, exit_code>>
           ELSE \/ /\ did' = Done("download")
                   /\ downloads' = downloads \cup {saved}
                   /\ file_name' = name
                   /\ pc' = "clean"
                   /\ UNCHANGED <<i, choice, error, exit_code>>
                \/ /\ did' = Done("download")
                   /\ \E created \in BOOLEAN :
                        downloads' = IF created THEN downloads \cup {saved}
                                     ELSE downloads
                   /\ Fail("download failed")
    /\ UNCHANGED <<env, tools, PATH, runvars>>

\* the install directory is removed when it exists
Clean ==
    /\ pc = "clean"
    /\ IF output_dir \in DOMAIN tools
       THEN \/ /\ did' = Done("remove_dir_all")
               /\ tools' = RemoveDir(tools, output_dir)
               /\ pc' = "extract"
               /\ UNCHANGED <<i, choice, file_name, error, exit_code>>
            \/ /\ did' = Done("remove_dir_all")
               /\ tools' = tools
               /\ Fail("remove_dir_all failed")
       ELSE /\ pc' = "extract"
            /\ UNCHANGED <<did, tools, i, choice, file_name, error, exit_code>>
    /\ UNCHANGED <<env, downloads, PATH, runvars>>

\* the match without its last arm: whatever is not a zip goes to un7z
ExtractorOfNoDefault(name) ==
    IF Extension(name) = <<"zip">> THEN "unzip" ELSE "un7z"

\* the extractor of the extension of the archive
ExtractorOf(name) ==
    IF Extension(name) = <<"zip">> THEN "unzip"
    ELSE IF Extension(name) = <<"7z">> THEN "un7z"
    ELSE "unsupported"

\* match on the extension: unzip, un7z, or Err
Extract ==
    /\ pc = "extract"
    /\ LET how == ExtractorOf(file_name)
       IN  IF how = "unsupported"
           THEN /\ Fail("unsupported archive format")
                /\ UNCHANGED <<did, tools>>
           ELSE \/ \E archive \in Archives(file_name, output_dir) :
                     /\ did' = Done(how)
                     /\ tools' = Extracted(tools, archive)
                     /\ pc' = IF how = "unzip" THEN "rename" ELSE "add_path"
                     /\ UNCHANGED <<i, choice, file_name, error, exit_code>>
                \/ /\ did' = Done(how)
                   /\ tools' = tools
                   /\ Fail("extraction failed")
    /\ UNCHANGED <<env, downloads, PATH, runvars>>

\* a zip archive: tools/<archive name without .zip> becomes the install directory
Rename ==
    /\ pc = "rename"
    /\ \E kind \in {"AlreadyExists", "Other"} :
         LET r == rename_dir(tools, StripZip(file_name), output_dir, kind)
         IN  /\ did' = Done("rename")
             /\ tools' = r.fs
             /\ IF r.ok
                THEN /\ pc' = "add_path"
                     /\ UNCHANGED <<i, choice, file_name, error, exit_code>>
                ELSE Fail("rename failed")
    /\ UNCHANGED <<env, downloads, PATH, runvars>>

\* add_tool_to_path(output_dir/bin), the end of the loop body
AddToolToPath ==
    /\ pc = "add_path"
    /\ LET r == add_tool_to_path(PATH, BinPath(cwd, output_dir),
                                 output_dir \in DOMAIN tools
                                     /\ "bin" \in tools[output_dir])
       IN  /\ PATH' = r.path
           /\ did' = IF r.path # PATH
                     THEN did \cup {<<"add_tool_to_path", Tool.tool_name>>,
                                    <<"set_path", Tool.tool_name>>}
                     ELSE Done("add_tool_to_path")
           /\ IF r.status = "ok" THEN NextTool
              ELSE IF r.status = "err" THEN Fail("no bin directory, or join_paths failed")
              ELSE Panic("PATH is not set")
    /\ UNCHANGED <<env, downloads, tools, runvars>>

(***************************************************************************)
(* run() after environment_check: the three commands.  The Result of       *)
(* run_command is dropped each time (let _ =), and run() returns Ok(()).   *)
(***************************************************************************)
Spawn(stage, command, arguments, outcome) ==
    spawned' = Append(spawned, [stage |-> stage, command |-> command,
                                arguments |-> arguments, outcome |-> outcome,
                                result |-> run_command(outcome)])

\* the arguments are read (any strings: Args holds String fields), the build
\* directory and the configure command line are built, cmake is spawned
Configure ==
    /\ pc = "configure"
    /\ \E a \in Architectures, b \in BuildTypes :
         /\ arch' = a
         /\ build_type' = b
    /\ build_dir' = BuildDir(build_type', arch')
    /\ \E outcome \in SpawnOutcomes :
         Spawn("configure", <<"cmake">>,
               ConfigCommand(build_dir', build_type', arch'), outcome)
    /\ pc' = "build"
    /\ UNCHANGED <<env, i, locals, downloads, tools, PATH, did, error, exit_code>>

Build ==
    /\ pc = "build"
    /\ \E outcome \in SpawnOutcomes :
         Spawn("build", <<"cmake">>, BuildCommand(build_dir), outcome)
    /\ pc' = "launch"
    /\ UNCHANGED <<env, i, locals, downloads, tools, PATH, did, arch, build_type,
                   build_dir,
                   error, exit_code>>

\* the built executable is run; run() returns Ok(()) and main() returns: exit 0
Launch ==
    /\ pc = "launch"
    /\ \E outcome \in SpawnOutcomes :
         Spawn("launch", ExePath(build_dir, CurrentDirName(cwd)), <<>>, outcome)
    /\ pc' = "exited"
    /\ exit_code' = <<0>>
    /\ UNCHANGED <<env, i, locals, downloads, tools, PATH, did, arch, build_type,
                   build_dir, error>>

(***************************************************************************)
(* The start of the process.                                               *)
(***************************************************************************)
SeqsUpTo(S, n) == UNION {[1..k -> S] : k \in 0..n}

\* the first n tools of a registry
FirstTools(reg, n) == {reg[k] : k \in 1..(IF n < Len(reg) THEN n ELSE Len(reg))}

\* the names the archives of these tools are saved under
ArchiveNames(specs) == {get_url_filename(t.url) : t \in specs} \ {None}

\* the directories under tools/ these tools are installed into or extracted to
ToolDirs(specs) ==
    {t.target_dir : t \in specs}
        \cup {StripZip(n) : n \in {m \in ArchiveNames(specs) : Extension(m) = <<"zip">>}}

\* what the PATH of the parent process may list
PathEntries(dir) == { <<"/", "usr", "/", "bin">>, BinPath(dir, CMAKE_DIR) }

InitWith(registries) ==
    /\ registry \in registries
    /\ cwd \in CurrentDirs
    /\ pc = "probe"
    /\ i = 1
    /\ choice = None
    /\ file_name = None
    /\ downloads \in SUBSET ArchiveNames(FirstTools(registry, MaxToolsBefore))
    /\ \E dirs \in SUBSET ToolDirs(FirstTools(registry, MaxToolsBefore)) :
         tools = [d \in dirs |-> {"old", "bin"}]
    /\ \/ PATH = [set |-> FALSE, value |-> <<>>]
       \/ \E entries \in SeqsUpTo(PathEntries(cwd), MaxInitPath) :
            PATH = [set |-> TRUE, value |-> Join(entries, PathSep)]
    /\ path0 = IF PATH.set THEN split_paths(PATH.value) ELSE <<>>
    /\ did = {}
    /\ arch = ""
    /\ build_type = ""
    /\ build_dir = ""
    /\ spawned = <<>>
    /\ error = ""
    /\ exit_code = <<>>

Init == InitWith({TOOL_URLS})

(***************************************************************************)
(* The same program over a registry of one tool whose URL is any of        *)
(* UrlInputs: what get_url_filename, download and the match on the         *)
(* extension do with URLs the table of this build does not hold.           *)
(***************************************************************************)
Host == <<"https", ":", "/", "/", "h">>

UrlInputs ==
    { Host \o <<"/", "a", "/", "b", "/", "name-1", ".", "2", ".", "3", ".", "zip">>,
      Host \o <<"/", "a", "/", "tool", ".", "rar">>,
      Host \o <<"/", "a", "/", "tool">>,
      Host \o <<"/", "a", "/", "tool", ".", "7z", "?", "v=1">>,
      Host \o <<"/", "a", "/", "b", "/">>,
      Host \o <<"/", "a", "/", ".", ".">>,
      Host,
      <<"mailto", ":", "a@h">>,
      <<"h", "/", "a", "/", "tool", ".", "zip">> }

RegistryInputs ==
    { << [tool_name |-> "cmake", url |-> u, target_dir |-> CMAKE_DIR] >> : u \in UrlInputs }

InitUrls == InitWith(RegistryInputs)

Next ==
    \/ Probe
    \/ Prompt
    \/ Fetch
    \/ Clean
    \/ Extract
    \/ Rename
    \/ AddToolToPath
    \/ Configure
    \/ Build
    \/ Launch

Spec == Init /\ [][Next]_vars

SpecUrls == InitUrls /\ [][Next]_vars

(***************************************************************************)
(* What the properties below speak of.                                     *)
(***************************************************************************)
Tools == 1..Len(registry)

\* the call was made for the k-th tool of the registry
Called(call, k) == <<call, registry[k].tool_name>> \in did

\* the run ended with an error in the iteration of the k-th tool
Failed(k) == i = k /\ pc = "exited" /\ exit_code # <<0>>

\* the k-th tool went through its whole iteration: add_tool_to_path returned Ok
Provisioned(k) == Called("add_tool_to_path", k) /\ ~Failed(k)

\* the calls that touch the network, the file system or PATH
EffectCalls ==
    {"download", "remove_dir_all", "unzip", "un7z", "rename", "add_tool_to_path",
     "set_path"}

SupportedArchitectures == {"x64", "x86"}

\* C1: the stages are fail-stop: a command is spawned only when every command
\* spawned before it (configure before build, both before the launch) succeeded.
C1_FailStop ==
    \A k \in 1..Len(spawned) : \A j \in 1..(k - 1) : spawned[j].result = "Ok"

\* every stage succeeded: provisioning gave no error and configure, build and
\* the launch each exited with 0
AllStagesSucceeded ==
    /\ error = ""
    /\ Len(spawned) = 3
    /\ \A k \in 1..Len(spawned) : spawned[k].outcome = "ok"

\* C2: the process exits with 0 only when every stage succeeded; a failed
\* stage gives a non-zero exit status.
C2_ExitStatus ==
    (pc = "exited" /\ exit_code = <<0>>) => AllStagesSucceeded

\* C3: no command is ever spawned for an architecture other than x64 and x86.
C3_UnsupportedArchRejected ==
    spawned # <<>> => arch \in SupportedArchitectures

\* C4: after a declined prompt nothing is downloaded, removed, extracted or put
\* on PATH for that tool and the decline is no error; a tool is downloaded and
\* installed only after the user has confirmed (answered y).
C4_DownloadOnlyConfirmed ==
    /\ \A k \in Tools :
         Called("declined", k) =>
            /\ \A c \in EffectCalls : ~Called(c, k)
            /\ ~Failed(k)
    /\ pc \in {"fetch", "clean", "extract", "rename", "add_path"} => choice = <<"y">>

\* C5: a tool whose probe launched and exited with 0 is left alone: no prompt,
\* no download, no removal, no extraction, no rename and no PATH change is made
\* for it, and the step that probes it leaves downloads/, tools/ and PATH as
\* they were and goes on to the next tool.
C5_AvailableToolUntouched ==
    [][ /\ \A k \in Tools :
             Called("probe_ok", k)' =>
                \A c \in EffectCalls \cup {"prompt", "declined"} : ~Called(c, k)'
        /\ (pc = "probe" /\ Called("probe_ok", i)') =>
              /\ UNCHANGED <<downloads, tools, PATH>>
              /\ pc' \in {"probe", "configure"}
              /\ (pc' = "probe" => i' = i + 1) ]_vars

\* C5 happens: cmake was found by its probe and the loop went on to the next tool
C5_Witness == Called("probe_ok", 1) /\ i = 2 /\ pc = "probe"

\* the archive of the k-th tool has a name, and its extension is not zip or 7z
Unsupported(k) ==
    LET name == get_url_filename(registry[k].url)
    IN  name # None /\ Extension(name) \notin { <<"zip">>, <<"7z">> }

\* C6: a tool whose archive has an extension other than zip and 7z is never
\* extracted, renamed or put on PATH; once its provisioning has begun the run
\* goes no further than the match on the extension and ends with an error; the
\* step at the match fails with "unsupported archive format" and changes
\* neither tools/, downloads/ nor PATH.
C6_UnsupportedFormatFails ==
    [][ /\ \A k \in Tools :
             Unsupported(k) =>
                /\ \A c \in {"unzip", "un7z", "rename", "add_tool_to_path", "set_path"} :
                      ~Called(c, k)'
                /\ (Called("prompt", k)' /\ ~Called("declined", k)') =>
                      /\ i' = k
                      /\ pc' \in {"fetch", "clean", "extract", "exited"}
                      /\ (pc' = "exited" => exit_code' # <<0>>)
        /\ (pc = "extract" /\ Unsupported(i)) =>
              /\ pc' = "exited"
              /\ error' = "unsupported archive format"
              /\ exit_code' = <<1>>
              /\ UNCHANGED <<tools, downloads, PATH, did>> ]_vars

\* C6 happens: the run ended at the match on the extension of a .rar archive
C6_Witness ==
    /\ pc = "exited"
    /\ error = "unsupported archive format"
    /\ Unsupported(i)
    /\ Extension(file_name) = <<"rar">>

\* the bin directory of the k-th tool
BinOf(k) == BinPath(cwd, registry[k].target_dir)

\* the bin directories set_var put on PATH for the tools 1..k, the latest first
RECURSIVE Prepended(_)
Prepended(k) ==
    IF k = 0 THEN <<>>
    ELSE (IF Called("set_path", k) THEN <<BinOf(k)>> ELSE <<>>) \o Prepended(k - 1)

\* C7: PATH is the list it was at the start with, in front of it, the bin
\* directories add_tool_to_path prepended, each once and the latest first; a
\* bin directory is prepended only when the PATH of the start does not list it,
\* and a call that returns Ok without changing PATH found it listed.
C7_PathFrontOrdered ==
    PATH.set =>
       /\ split_paths(PATH.value) = Prepended(Len(registry)) \o path0
       /\ \A k \in Tools : Called("set_path", k) => ~Contains(path0, BinOf(k))
       /\ \A k \in Tools :
             (Provisioned(k) /\ ~Called("set_path", k)) => Contains(path0, BinOf(k))

\* C7 happens: one tool's bin directory was already listed (the call changed
\* nothing) and another's was prepended in front of the entries of the start
C7_Witness ==
    /\ \E k \in Tools : Provisioned(k) /\ ~Called("set_path", k)
    /\ \E k \in Tools : Called("set_path", k)
    /\ \E n \in 1..Len(path0) : path0[n] # <<>>

\* C8: two different (build_type, architecture) inputs the command line accepts
\* never give the same build directory.
C8_DistinctBuildDirs ==
    build_dir # "" =>
       \A a \in Architectures, b \in BuildTypes :
          (a # arch \/ b # build_type) => BuildDir(b, a) # build_dir

\* C9: a tool provisioned over an install directory that was there before (and
\* was removed) holds the files of the archive and no file from before the run.
C9_NoStaleFiles ==
    \A k \in Tools :
       (Called("remove_dir_all", k) /\ Provisioned(k)) =>
          /\ registry[k].target_dir \in DOMAIN tools
          /\ "new" \in tools[registry[k].target_dir]
          /\ "old" \notin tools[registry[k].target_dir]

IsNonEmpty(s) == s # <<>>

\* the name as the claim resolves it: the last non-empty path segment of the
\* URL, the fallback name when there is none
ClaimedName(url) ==
    LET u == UrlParse(url)
        segs == IF u.ok /\ u.has_segments THEN SelectSeq(u.segments, IsNonEmpty)
                ELSE <<>>
    IN  IF segs = <<>> THEN FallbackName ELSE segs[Len(segs)]

ExampleUrl ==
    Host \o <<"/", "a", "/", "b", "/", "name-1", ".", "2", ".", "3", ".", "zip">>

\* the URL parses, has path segments, and the last of them is not empty
HasFileName(url) ==
    LET u == UrlParse(url)
    IN  u.ok /\ u.has_segments /\ u.segments # <<>> /\ u.segments[Len(u.segments)] # <<>>

====
